---------------------------- MODULE Spec2Model ----------------------------
(***************************************************************************)
(* Icon detection of the Lisa desktop server                               *)
(* (packages/lisa-desktop/src/server.py): the registry of icon templates,  *)
(* the multi-scale template matcher, the heuristic detectors, the          *)
(* non-maximum suppression pass and the two HTTP handlers that use them.   *)
(*                                                                         *)
(* Conventions.  A float confidence or correlation value c is held as the  *)
(* integer 100*c.  An IoU threshold t is held as the fraction n/d, and a   *)
(* comparison iou > t is done on integers by cross-multiplication (the     *)
(* thresholds used have a power of two as denominator and the boxes are    *)
(* small, so the float comparison of the code decides the same way).  A    *)
(* string is held as the sequence of its characters, so that lower-casing  *)
(* is computed character by character.  What OpenCV computes from pixels   *)
(* (the correlation surface, contours, line segments, circles) is an input *)
(* of the call, drawn from bounded sets.                                   *)
(***************************************************************************)
EXTENDS Integers, Sequences, FiniteSets, TLC

VARIABLES
    ICON_TEMPLATES, \* the registry: folded name -> template image
    recent,         \* history: raw name -> image last registered under a case-equal name
    call,           \* the call being answered: its inputs and what it read
    result          \* its response

vars == <<ICON_TEMPLATES, recent, call, result>>

\* Longest detection list given to the suppressor on its own.
MaxDets == 3

NoCall == [op |-> "idle"]
NoResult == [kind |-> "none"]

Max(a, b) == IF a >= b THEN a ELSE b
Min(a, b) == IF a <= b THEN a ELSE b
Abs(a) == IF a >= 0 THEN a ELSE 0 - a

Detection(text, x, y, w, h, confidence) ==
    [type |-> "icon", text |-> text,
     bounds |-> [x |-> x, y |-> y, width |-> w, height |-> h],
     confidence |-> confidence, numpy_ints |-> FALSE]

---------------------------------------------------------------------------
(* Strings, as sequences of characters, and str.lower()                    *)

UpperLetters ==
    <<"A", "B", "C", "D", "E", "F", "G", "H", "I", "J", "K", "L", "M",
      "N", "O", "P", "Q", "R", "S", "T", "U", "V", "W", "X", "Y", "Z">>

LowerLetters ==
    <<"a", "b", "c", "d", "e", "f", "g", "h", "i", "j", "k", "l", "m",
      "n", "o", "p", "q", "r", "s", "t", "u", "v", "w", "x", "y", "z">>

LowerChar(c) ==
    IF \E i \in DOMAIN UpperLetters : UpperLetters[i] = c
    THEN LowerLetters[CHOOSE i \in DOMAIN UpperLetters : UpperLetters[i] = c]
    ELSE c

\* The name used as it was sent.
NotLowered(s) == s

\* str.lower()
Lower(s) == [i \in DOMAIN s |-> LowerChar(s[i])]

\* dict.get(key, default)
Get(data, key, default) == IF key \in DOMAIN data THEN data[key] ELSE default

---------------------------------------------------------------------------
(* remove_overlapping_detections                                           *)

\* overlap_thresh's default, 0.5
DefaultOverlapThresh == [n |-> 1, d |-> 2]

\* The insertion step putting det in front of the elements of equal confidence.
RECURSIVE InsertBeforeTies(_, _)
InsertBeforeTies(det, sorted) ==
    IF sorted = <<>> THEN <<det>>
    ELSE IF Head(sorted).confidence > det.confidence
         THEN <<Head(sorted)>> \o InsertBeforeTies(det, Tail(sorted))
         ELSE <<det>> \o sorted

\* sorted(detections, key=confidence, reverse=True): insert det behind every
\* element whose confidence is >= its own (Python's sort is stable, also
\* with reverse=True).
RECURSIVE InsertByConfidence(_, _)
InsertByConfidence(det, sorted) ==
    IF sorted = <<>> THEN <<det>>
    ELSE IF Head(sorted).confidence >= det.confidence
         THEN <<Head(sorted)>> \o InsertByConfidence(det, Tail(sorted))
         ELSE <<det>> \o sorted

RECURSIVE SortedByConfidence(_)
SortedByConfidence(detections) ==
    IF detections = <<>> THEN <<>>
    ELSE InsertByConfidence(detections[Len(detections)],
                            SortedByConfidence(SubSeq(detections, 1, Len(detections) - 1)))

\* The IoU test with the union taken as the sum of the two areas.
OverlapsSumOfAreas(b1, b2, overlap_thresh) ==
    LET x1 == Max(b1.x, b2.x)
        y1 == Max(b1.y, b2.y)
        x2 == Min(b1.x + b1.width, b2.x + b2.width)
        y2 == Min(b1.y + b1.height, b2.y + b2.height)
        intersection == (x2 - x1) * (y2 - y1)
        union == b1.width * b1.height + b2.width * b2.height
    IN  /\ x2 > x1
        /\ y2 > y1
        /\ IF union > 0
           THEN intersection * overlap_thresh.d > overlap_thresh.n * union
           ELSE 0 > overlap_thresh.n

\* The IoU test with >= in place of > in line 516.
OverlapsAtLeast(b1, b2, overlap_thresh) ==
    LET x1 == Max(b1.x, b2.x)
        y1 == Max(b1.y, b2.y)
        x2 == Min(b1.x + b1.width, b2.x + b2.width)
        y2 == Min(b1.y + b1.height, b2.y + b2.height)
        intersection == (x2 - x1) * (y2 - y1)
        union == b1.width * b1.height + b2.width * b2.height - intersection
    IN  /\ x2 > x1
        /\ y2 > y1
        /\ IF union > 0
           THEN intersection * overlap_thresh.d >= overlap_thresh.n * union
           ELSE 0 >= overlap_thresh.n

\* Lines 502-516: TRUE when the IoU of the two boxes is > overlap_thresh.
\* The IoU is only computed when the boxes intersect; it is
\* intersection / union when union > 0 and 0 otherwise.
Overlaps(b1, b2, overlap_thresh) ==
    LET x1 == Max(b1.x, b2.x)
        y1 == Max(b1.y, b2.y)
        x2 == Min(b1.x + b1.width, b2.x + b2.width)
        y2 == Min(b1.y + b1.height, b2.y + b2.height)
        intersection == (x2 - x1) * (y2 - y1)
        union == b1.width * b1.height + b2.width * b2.height - intersection
    IN  /\ x2 > x1
        /\ y2 > y1
        /\ IF union > 0
           THEN intersection * overlap_thresh.d > overlap_thresh.n * union
           ELSE 0 > overlap_thresh.n

\* The loop over the sorted detections: det is kept unless it overlaps a
\* detection already kept.
RECURSIVE KeepLoop(_, _, _)
KeepLoop(detections, keep, overlap_thresh) ==
    IF detections = <<>> THEN keep
    ELSE LET det == Head(detections)
             should_keep ==
                 \A i \in 1..Len(keep) :
                     ~Overlaps(det.bounds, keep[i].bounds, overlap_thresh)
         IN  KeepLoop(Tail(detections),
                      IF should_keep THEN Append(keep, det) ELSE keep,
                      overlap_thresh)

remove_overlapping_detections(detections, overlap_thresh) ==
    IF Len(detections) = 0 THEN <<>>
    ELSE KeepLoop(SortedByConfidence(detections), <<>>, overlap_thresh)

---------------------------------------------------------------------------
(* A frame: the screenshot's shape (height, width) and what OpenCV         *)
(* computes from its pixels in this call.  corr gives the surface that     *)
(* cv2.matchTemplate returns: at scale number k and coordinate (x, y) it   *)
(* is the value of the peak there, if any, and bg elsewhere.               *)

CorrAt(frame, k, x, y) ==
    LET here == { p \in frame.corr.peaks : p.scale = k /\ p.x = x /\ p.y = y }
    IN  IF here = {} THEN frame.corr.bg ELSE (CHOOSE p \in here : TRUE).v

\* <<row, column>> pairs in the order in which np.where lists them.
RowMajorLess(a, b) == a[1] < b[1] \/ (a[1] = b[1] /\ a[2] < b[2])

RECURSIVE RowMajor(_)
RowMajor(S) ==
    IF S = {} THEN <<>>
    ELSE LET first == CHOOSE a \in S : \A b \in S \ {a} : RowMajorLess(a, b)
         IN  <<first>> \o RowMajor(S \ {first})

MapSeq(s, F(_)) == [i \in 1..Len(s) |-> F(s[i])]

\* s[-n:]
TakeLast(s, n) == SubSeq(s, Len(s) - Min(n, Len(s)) + 1, Len(s))

\* s[:n]
Take(s, n) == SubSeq(s, 1, Min(n, Len(s)))

RECURSIVE Concat(_)
Concat(seqs) == IF seqs = <<>> THEN <<>> ELSE Head(seqs) \o Concat(Tail(seqs))

\* A detection whose bounds hold numpy integers: json.dumps refuses them.
NumpyDetection(text, x, y, w, h, confidence) ==
    [type |-> "icon", text |-> text,
     bounds |-> [x |-> x, y |-> y, width |-> w, height |-> h],
     confidence |-> confidence, numpy_ints |-> TRUE]

---------------------------------------------------------------------------
(* find_template_matches                                                   *)

\* The scale factors 0.8 ... 1.2, in tenths.
Scales == <<8, 9, 10, 11, 12>>

\* cv2.resize(template, None, fx=scale, fy=scale): a side d becomes
\* round(d * scale), a half rounded to the even neighbour.
ResizedSide(d, scale) ==
    LET p == d * scale
        q == p \div 10
        r == p % 10
    IN  IF r > 5 \/ (r = 5 /\ q % 2 = 1) THEN q + 1 ELSE q

\* np.where(result >= threshold) for the surface of scale number k, the
\* resized template being w wide and h high.  cv2.matchTemplate takes the
\* larger of its two arguments as the image: the surface has
\* |H - h| + 1 rows and |W - w| + 1 columns, and the call raises (nothing
\* is located) when one argument is higher and the other wider.
Locations(frame, k, w, h, threshold) ==
    LET rows == 0..Abs(frame.shape[1] - h)
        cols == 0..Abs(frame.shape[2] - w)
        raises == \/ (h > frame.shape[1] /\ w < frame.shape[2])
                  \/ (h < frame.shape[1] /\ w > frame.shape[2])
    IN  IF raises THEN {}
        ELSE IF frame.corr.bg >= threshold
        THEN { pt \in rows \X cols : CorrAt(frame, k, pt[2], pt[1]) >= threshold }
        ELSE { <<p.y, p.x>> :
                 p \in { q \in frame.corr.peaks :
                           /\ q.scale = k
                           /\ q.y \in rows
                           /\ q.x \in cols
                           /\ q.v >= threshold } }

\* The scale loop with the size test of lines 209-210 left out.
ScaleMatchesAnySize(frame, template, name, threshold, k) ==
    LET h == ResizedSide(template.shape[1], Scales[k])
        w == ResizedSide(template.shape[2], Scales[k])
        at(pt) == Detection(name, pt[2], pt[1], w, h, CorrAt(frame, k, pt[2], pt[1]))
    IN  MapSeq(RowMajor(Locations(frame, k, w, h, threshold)), at)

\* One pass of the loop of lines 205-221: the detections of scale number k.
ScaleMatches(frame, template, name, threshold, k) ==
    LET h == ResizedSide(template.shape[1], Scales[k])
        w == ResizedSide(template.shape[2], Scales[k])
        at(pt) == Detection(name, pt[2], pt[1], w, h, CorrAt(frame, k, pt[2], pt[1]))
    IN  IF h > frame.shape[1] \/ w > frame.shape[2]
        THEN <<>>
        ELSE MapSeq(RowMajor(Locations(frame, k, w, h, threshold)), at)

\* The loop left (break) behind the first scale that gives a detection.
RECURSIVE FirstScaleWithMatches(_, _, _, _, _)
FirstScaleWithMatches(frame, template, name, threshold, k) ==
    IF k > Len(Scales) THEN <<>>
    ELSE IF ScaleMatches(frame, template, name, threshold, k) # <<>>
    THEN ScaleMatches(frame, template, name, threshold, k)
    ELSE FirstScaleWithMatches(frame, template, name, threshold, k + 1)

RawMatchesUntilFirst(frame, template, name, threshold) ==
    FirstScaleWithMatches(frame, template, name, threshold, 1)

\* results before line 224
RawTemplateMatches(frame, template, name, threshold) ==
    Concat([k \in 1..Len(Scales) |-> ScaleMatches(frame, template, name, threshold, k)])

find_template_matches(frame, template, name, threshold) ==
    remove_overlapping_detections(RawTemplateMatches(frame, template, name, threshold),
                                  DefaultOverlapThresh)

---------------------------------------------------------------------------
(* The heuristic detectors.  Each takes what OpenCV found in the frame:    *)
(* contours (area2 is twice cv2.contourArea), line segments, circles.      *)

\* np.uint16 arithmetic
U16(v) == v % 65536

\* y < screen_gray.shape[0] * 0.15
InTopPart(y, frame) == y * 100 < frame.shape[1] * 15

CloseText == <<"c", "l", "o", "s", "e">>
MinimizeText == <<"m", "i", "n", "i", "m", "i", "z", "e">>
MaximizeText == <<"m", "a", "x", "i", "m", "i", "z", "e">>
CheckboxText == <<"c", "h", "e", "c", "k", "b", "o", "x">>
RadioText == <<"r", "a", "d", "i", "o">>
SearchText == <<"s", "e", "a", "r", "c", "h">>
MenuText == <<"m", "e", "n", "u">>

detect_close_buttons(frame) ==
    LET accepts(c) ==
            /\ 200 < c.area2
            /\ c.area2 < 10000
            /\ c.rect.height > 0
            /\ 2 * c.rect.width > c.rect.height
            /\ c.rect.width < 2 * c.rect.height
        det(c) == Detection(CloseText, c.rect.x, c.rect.y, c.rect.width, c.rect.height, 70)
    IN  Take(MapSeq(SelectSeq(frame.red_contours, accepts), det), 5)

detect_minimize_buttons(frame) ==
    LET accepts(l) ==
            /\ Abs(l.y2 - l.y1) < 3
            /\ 8 < Abs(l.x2 - l.x1)
            /\ Abs(l.x2 - l.x1) < 30
            /\ InTopPart(l.y1, frame)
        det(l) == NumpyDetection(MinimizeText, Min(l.x1, l.x2) - 5, l.y1 - 10,
                                 Abs(l.x2 - l.x1) + 10, 20, 60)
    IN  Take(MapSeq(SelectSeq(frame.lines_minimize, accepts), det), 5)

detect_maximize_buttons(frame) ==
    LET accepts(c) ==
            /\ c.approx_len = 4
            /\ c.approx_rect.height > 0
            /\ 5 * c.approx_rect.width > 4 * c.approx_rect.height
            /\ 5 * c.approx_rect.width < 6 * c.approx_rect.height
            /\ 10 < c.approx_rect.width
            /\ c.approx_rect.width < 40
            /\ InTopPart(c.approx_rect.y, frame)
        det(c) == Detection(MaximizeText, c.approx_rect.x, c.approx_rect.y,
                            c.approx_rect.width, c.approx_rect.height, 60)
    IN  Take(MapSeq(SelectSeq(frame.edge_contours, accepts), det), 5)

\* The test of line 370 with its bounds included.
CheckboxSizedInclusive(w, h) ==
    /\ h > 0
    /\ 5 * w >= 4 * h
    /\ 5 * w <= 6 * h
    /\ 10 <= w
    /\ w <= 30
    /\ 10 <= h
    /\ h <= 30

\* Line 370: 0.8 < aspect_ratio < 1.2 and 10 < w < 30 and 10 < h < 30,
\* aspect_ratio being w / h for h > 0 and 0 otherwise.
CheckboxSized(w, h) ==
    /\ h > 0
    /\ 5 * w > 4 * h
    /\ 5 * w < 6 * h
    /\ 10 < w
    /\ w < 30
    /\ 10 < h
    /\ h < 30

detect_checkboxes(frame) ==
    LET accepts(c) == CheckboxSized(c.rect.width, c.rect.height)
        det(c) == Detection(CheckboxText, c.rect.x, c.rect.y, c.rect.width, c.rect.height, 50)
    IN  Take(MapSeq(SelectSeq(frame.edge_contours, accepts), det), 10)

\* circles = np.uint16(np.around(circles)): x - r and 2 * r are uint16.
detect_radio_buttons(frame) ==
    LET det(c) == Detection(RadioText, U16(c.x - c.r), U16(c.y - c.r),
                            U16(2 * c.r), U16(2 * c.r), 60)
    IN  Take(MapSeq(frame.circles_radio, det), 10)

\* The region of lines 432-433 is empty: the slice starts at or behind its end.
EmptyRoi(c, frame) ==
    \/ Max(0, U16(U16(c.y - c.r) - 5)) >= Min(frame.shape[1], U16(U16(c.y + c.r) + 15))
    \/ Max(0, U16(U16(c.x - c.r) - 5)) >= Min(frame.shape[2], U16(U16(c.x + c.r) + 15))

\* cv2.Canny and cv2.HoughLinesP on an empty region either raise or find
\* nothing (frame.empty_roi_raises: it depends on the OpenCV build);
\* elsewhere they find c.handle_lines segments.
detect_search_icons(frame) ==
    LET accepts(c) == ~EmptyRoi(c, frame) /\ c.handle_lines > 0
        det(c) == Detection(SearchText, U16(U16(c.x - c.r) - 5), U16(U16(c.y - c.r) - 5),
                            U16(U16(2 * c.r) + 15), U16(U16(2 * c.r) + 15), 60)
    IN  IF /\ frame.empty_roi_raises
           /\ \E i \in 1..Len(frame.circles_search) : EmptyRoi(frame.circles_search[i], frame)
        THEN [raised |-> TRUE, value |-> <<>>]
        ELSE [raised |-> FALSE,
              value |-> Take(MapSeq(SelectSeq(frame.circles_search, accepts), det), 5)]

\* horizontal_lines.sort(key=lambda l: (l[0], l[1])), a stable sort
LineKeyLeq(a, b) == a[1] < b[1] \/ (a[1] = b[1] /\ a[2] <= b[2])

RECURSIVE InsertLine(_, _)
InsertLine(l, sorted) ==
    IF sorted = <<>> THEN <<l>>
    ELSE IF LineKeyLeq(Head(sorted), l)
         THEN <<Head(sorted)>> \o InsertLine(l, Tail(sorted))
         ELSE <<l>> \o sorted

RECURSIVE SortLines(_)
SortLines(ls) ==
    IF ls = <<>> THEN <<>>
    ELSE InsertLine(ls[Len(ls)], SortLines(SubSeq(ls, 1, Len(ls) - 1)))

\* The test of line 475 asking of both spacings what it asks of the first.
EvenlySpacedBoth(spacing1, spacing2) ==
    /\ 3 < spacing1
    /\ spacing1 < 15
    /\ 3 < spacing2
    /\ spacing2 < 15
    /\ Abs(spacing1 - spacing2) < 3

\* Line 475: 3 < spacing1 < 15 and abs(spacing1 - spacing2) < 3
EvenlySpaced(spacing1, spacing2) ==
    /\ 3 < spacing1
    /\ spacing1 < 15
    /\ Abs(spacing1 - spacing2) < 3

detect_hamburger_menu(frame) ==
    LET nearly_horizontal(l) == Abs(l.y2 - l.y1) < 3
        entry(l) == <<Min(l.x1, l.x2), l.y1, Abs(l.x2 - l.x1)>>
        horizontal_lines ==
            SortLines(MapSeq(SelectSeq(frame.lines_menu, nearly_horizontal), entry))
        accepts(i) ==
            LET l1 == horizontal_lines[i]
                l2 == horizontal_lines[i + 1]
                l3 == horizontal_lines[i + 2]
                spacing1 == l2[2] - l1[2]
                spacing2 == l3[2] - l2[2]
            IN  /\ Abs(l1[1] - l2[1]) < 5
                /\ Abs(l2[1] - l3[1]) < 5
                /\ EvenlySpaced(spacing1, spacing2)
        det(i) ==
            LET l1 == horizontal_lines[i]
                l3 == horizontal_lines[i + 2]
            IN  Detection(MenuText, l1[1] - 5, l1[2] - 5, l1[3] + 10, l3[2] - l1[2] + 10, 70)
        starts == [i \in 1..Max(0, Len(horizontal_lines) - 2) |-> i]
    IN  Take(MapSeq(SelectSeq(starts, accepts), det), 5)

---------------------------------------------------------------------------
(* detect_common_ui_elements                                               *)

\* line 232: ['close', 'x', 'fermer']
CloseAliases ==
    { <<"c", "l", "o", "s", "e">>,
      <<"x">>,
      <<"f", "e", "r", "m", "e", "r">> }

\* line 236: ['minimize', 'minimiser', '_', 'moins']
MinimizeAliases ==
    { <<"m", "i", "n", "i", "m", "i", "z", "e">>,
      <<"m", "i", "n", "i", "m", "i", "s", "e", "r">>,
      <<"_">>,
      <<"m", "o", "i", "n", "s">> }

\* line 240: ['maximize', 'maximiser', 'agrandir', 'square']
MaximizeAliases ==
    { <<"m", "a", "x", "i", "m", "i", "z", "e">>,
      <<"m", "a", "x", "i", "m", "i", "s", "e", "r">>,
      <<"a", "g", "r", "a", "n", "d", "i", "r">>,
      <<"s", "q", "u", "a", "r", "e">> }

\* line 244: ['checkbox', 'check', 'case a cocher']
CheckboxAliases ==
    { <<"c", "h", "e", "c", "k", "b", "o", "x">>,
      <<"c", "h", "e", "c", "k">>,
      <<"c", "a", "s", "e", " ", "a", " ", "c", "o", "c", "h", "e", "r">> }

\* line 248: ['radio', 'radio button', 'bouton radio']
RadioAliases ==
    { <<"r", "a", "d", "i", "o">>,
      <<"r", "a", "d", "i", "o", " ", "b", "u", "t", "t", "o", "n">>,
      <<"b", "o", "u", "t", "o", "n", " ", "r", "a", "d", "i", "o">> }

\* line 252: ['search', 'recherche', 'loupe', 'magnifying glass']
SearchAliases ==
    { <<"s", "e", "a", "r", "c", "h">>,
      <<"r", "e", "c", "h", "e", "r", "c", "h", "e">>,
      <<"l", "o", "u", "p", "e">>,
      <<"m", "a", "g", "n", "i", "f", "y", "i", "n", "g", " ", "g", "l", "a", "s", "s">> }

\* line 256: ['menu', 'hamburger', 'trois lignes']
MenuAliases ==
    { <<"m", "e", "n", "u">>,
      <<"h", "a", "m", "b", "u", "r", "g", "e", "r">>,
      <<"t", "r", "o", "i", "s", " ", "l", "i", "g", "n", "e", "s">> }

\* The chain of lines 232-257 ending in an else that takes the first detector.
DetectorOrClose(icon_name) ==
    IF icon_name \in MinimizeAliases THEN "minimize"
    ELSE IF icon_name \in MaximizeAliases THEN "maximize"
    ELSE IF icon_name \in CheckboxAliases THEN "checkbox"
    ELSE IF icon_name \in RadioAliases THEN "radio"
    ELSE IF icon_name \in SearchAliases THEN "search"
    ELSE IF icon_name \in MenuAliases THEN "menu"
    ELSE "close"

\* The detector an icon name selects, "none" when it is no alias.
DetectorOf(icon_name) ==
    IF icon_name \in CloseAliases THEN "close"
    ELSE IF icon_name \in MinimizeAliases THEN "minimize"
    ELSE IF icon_name \in MaximizeAliases THEN "maximize"
    ELSE IF icon_name \in CheckboxAliases THEN "checkbox"
    ELSE IF icon_name \in RadioAliases THEN "radio"
    ELSE IF icon_name \in SearchAliases THEN "search"
    ELSE IF icon_name \in MenuAliases THEN "menu"
    ELSE "none"

\* The results, or raised when the selected detector raises: of its own, or
\* because an OpenCV call in it fails (fault = "detector").
detect_common_ui_elements(frame, icon_name, threshold, fault) ==
    LET detector == DetectorOf(icon_name)
        ok(results) == [raised |-> FALSE, value |-> results]
    IN  IF detector # "none" /\ fault = "detector"
        THEN [raised |-> TRUE, value |-> <<>>]
        ELSE CASE detector = "close" -> ok(detect_close_buttons(frame))
               [] detector = "minimize" -> ok(detect_minimize_buttons(frame))
               [] detector = "maximize" -> ok(detect_maximize_buttons(frame))
               [] detector = "checkbox" -> ok(detect_checkboxes(frame))
               [] detector = "radio" -> ok(detect_radio_buttons(frame))
               [] detector = "search" -> detect_search_icons(frame)
               [] detector = "menu" -> ok(detect_hamburger_menu(frame))
               [] OTHER -> ok(<<>>)

---------------------------------------------------------------------------
(* display_find_icons                                                      *)

\* data.get('threshold', 0.8)
DefaultThreshold == 80

NoTemplate == [id |-> "none"]

\* The except branch without the icons key, as in display_register_icon.
DetectionFailedWithoutIcons == [success |-> FALSE, status |-> 500, error |-> "exception"]

\* The except branch of lines 187-193.
DetectionFailed == [success |-> FALSE, status |-> 500, error |-> "exception", icons |-> <<>>]

\* The test of line 179 left out: the detectors always run.
AlwaysTryCommon(registered, icons) == TRUE

\* The detectors as the else branch of line 174: not for a registered name.
TryCommonIfUnregistered(registered, icons) == ~registered

\* Line 179, `if not icons`: whether a template is registered is not asked.
TryCommon(registered, icons) == icons = <<>>

\* The handler on a request body, a frame and a registry.  fault names the
\* step at which an OpenCV or capture call raises in this call, if any:
\* "view" (the screenshot and its grayscale view), "matcher", "detector".
\* Gives the response and what the handler did on the way: the template
\* it read, and whether it ran the matcher and the detectors.
FindIcons(body, frame, fault, templates) ==
    LET failed(template, ran_matcher, ran_common) ==
            [response |-> DetectionFailed, template |-> template,
             ran_matcher |-> ran_matcher, ran_common |-> ran_common]
    IN  IF ~body.json_ok \/ fault = "view"
        THEN failed(NoTemplate, FALSE, FALSE)
        ELSE
        LET icon_name == Lower(Get(body.data, "icon", <<>>))
            threshold == Get(body.data, "threshold", DefaultThreshold)
            registered == icon_name \in DOMAIN templates
            template == IF registered THEN templates[icon_name] ELSE NoTemplate
        IN  IF registered /\ fault = "matcher"
            THEN failed(template, TRUE, FALSE)
            ELSE
            LET matched == IF registered
                           THEN find_template_matches(frame, template, icon_name, threshold)
                           ELSE <<>>
                try_common == TryCommon(registered, matched)
                common == IF try_common
                          THEN detect_common_ui_elements(frame, icon_name, threshold, fault)
                          ELSE [raised |-> FALSE, value |-> <<>>]
                icons == matched \o common.value
            IN  IF common.raised
                   \* web.json_response serializes at once: numpy integers raise
                   \/ \E i \in 1..Len(icons) : icons[i].numpy_ints
                THEN failed(template, registered, try_common)
                ELSE [response |-> [success |-> TRUE, status |-> 200, icons |-> icons],
                      template |-> template,
                      ran_matcher |-> registered, ran_common |-> try_common]

---------------------------------------------------------------------------
(* display_register_icon                                                   *)

ImageA == [id |-> "A", shape |-> <<5, 5, 3>>]
ImageB == [id |-> "B", shape |-> <<2, 4, 3>>]
NoImage == [id |-> "none"]

\* Lines 538-540, base64.b64decode then cv2.imdecode(..., IMREAD_COLOR), on
\* the request's template text: raised when the text is no base64 or holds
\* no bytes, the image None when the bytes are no image.
DecodeTemplate(template_base64) ==
    CASE template_base64 = "iVBORw0KGgoA" -> [raised |-> FALSE, image |-> ImageA]
      [] template_base64 = "iVBORw0KGgoB" -> [raised |-> FALSE, image |-> ImageB]
      [] template_base64 = "bm90IGFuIGltYWdl" -> [raised |-> FALSE, image |-> NoImage]
      [] OTHER -> [raised |-> TRUE, image |-> NoImage]

\* The response of the handler.
RegisterResponse(body) ==
    IF ~body.json_ok
    THEN [success |-> FALSE, status |-> 500, error |-> "exception"]
    ELSE LET name == Lower(Get(body.data, "name", <<>>))
             template_base64 == Get(body.data, "template", "")
             decoded == DecodeTemplate(template_base64)
         IN  IF name = <<>> \/ template_base64 = ""
             THEN [success |-> FALSE, status |-> 400, error |-> "Name and template required"]
             ELSE IF decoded.raised
             THEN [success |-> FALSE, status |-> 500, error |-> "exception"]
             ELSE IF decoded.image = NoImage
             THEN [success |-> FALSE, status |-> 400, error |-> "Invalid image data"]
             ELSE [success |-> TRUE, status |-> 200, name |-> name,
                   size |-> [width |-> decoded.image.shape[2],
                             height |-> decoded.image.shape[1]]]

\* The entry updated in place, ICON_TEMPLATES[name][:] = template: the new
\* pixels are written into the array already stored, which keeps its shape.
StoreInPlace(templates, name, template) ==
    [k \in DOMAIN templates \cup {name} |->
        IF k # name THEN templates[k]
        ELSE IF name \in DOMAIN templates
             THEN [id |-> template.id, shape |-> templates[name].shape]
             ELSE template]

\* ICON_TEMPLATES[name] = template
Store(templates, name, template) ==
    [k \in DOMAIN templates \cup {name} |-> IF k = name THEN template ELSE templates[k]]

\* The registry with line 548 moved in front of the test of line 542: what
\* imdecode returned is stored before it is looked at.
RegisterStoreEarly(body, templates) ==
    IF ~body.json_ok
    THEN templates
    ELSE LET name == Lower(Get(body.data, "name", <<>>))
             template_base64 == Get(body.data, "template", "")
             decoded == DecodeTemplate(template_base64)
         IN  IF name = <<>> \/ template_base64 = "" \/ decoded.raised
             THEN templates
             ELSE Store(templates, name, decoded.image)

\* The registry with the name stored as it was sent.
RegisterStoreRawName(body, templates) ==
    IF ~body.json_ok
    THEN templates
    ELSE LET name == NotLowered(Get(body.data, "name", <<>>))
             template_base64 == Get(body.data, "template", "")
             decoded == DecodeTemplate(template_base64)
         IN  IF \/ name = <<>>
                \/ template_base64 = ""
                \/ decoded.raised
                \/ decoded.image = NoImage
             THEN templates
             ELSE Store(templates, name, decoded.image)

\* The registry after the handler: line 548 is reached only behind every
\* return and raise of lines 527-546.
RegisterStore(body, templates) ==
    IF ~body.json_ok
    THEN templates
    ELSE LET name == Lower(Get(body.data, "name", <<>>))
             template_base64 == Get(body.data, "template", "")
             decoded == DecodeTemplate(template_base64)
         IN  IF \/ name = <<>>
                \/ template_base64 = ""
                \/ decoded.raised
                \/ decoded.image = NoImage
             THEN templates
             ELSE Store(templates, name, decoded.image)

---------------------------------------------------------------------------
(* Requests and frames                                                     *)

\* Longest list of contours, segments or circles OpenCV finds in a frame.
MaxFeatures == 2
\* Longest list of segments found for the menu detector.
MaxMenuLines == 3

\* The lists of up to n different elements of S: OpenCV reports a contour,
\* a segment or a circle once.
Seqs(S, n) ==
    UNION { { f \in [1..k -> S] : \A i, j \in 1..k : i # j => f[i] # f[j] } : k \in 0..n }

RegisterNames ==
    { <<>>, <<"S", "a", "v", "e">>, <<"S", "A", "V", "E">>, <<"X">> }

TemplateTexts ==
    { "", "iVBORw0KGgoA", "iVBORw0KGgoB", "bm90IGFuIGltYWdl", "!!!" }

RegisterBodies ==
    {[json_ok |-> FALSE]}
        \cup { [json_ok |-> TRUE, data |-> [name |-> n, template |-> t]] :
                 n \in RegisterNames, t \in TemplateTexts }
        \cup { [json_ok |-> TRUE, data |-> [name |-> n]] : n \in RegisterNames }
        \cup { [json_ok |-> TRUE, data |-> [template |-> t]] : t \in TemplateTexts }

DetectNames ==
    { <<"S", "a", "v", "e">>, <<"s", "A", "V", "E">>, <<"X">>, <<"_">>,
      <<"S", "q", "u", "a", "r", "e">>, <<"c", "h", "e", "c", "k">>,
      <<"R", "A", "D", "I", "O">>, <<"l", "o", "u", "p", "e">>,
      <<"M", "e", "n", "u">>, <<"z", "z">> }

DetectThresholds == {-60, 95}

\* A threshold is sent with the names that are also registered: the
\* detectors do not read it.
DetectBodies ==
    {[json_ok |-> FALSE]}
        \cup { [json_ok |-> TRUE, data |-> [icon |-> n, threshold |-> t]] :
                 n \in { <<"S", "a", "v", "e">>, <<"s", "A", "V", "E">>, <<"X">> },
                 t \in DetectThresholds }
        \cup { [json_ok |-> TRUE, data |-> [icon |-> n]] : n \in DetectNames }
        \cup { [json_ok |-> TRUE, data |-> [threshold |-> t]] : t \in DetectThresholds }

Faults == {"none", "view", "matcher", "detector"}

Rect(x, y, w, h) == [x |-> x, y |-> y, width |-> w, height |-> h]

NoFeatures ==
    [red_contours |-> <<>>, edge_contours |-> <<>>, lines_minimize |-> <<>>,
     lines_menu |-> <<>>, circles_radio |-> <<>>, circles_search |-> <<>>,
     empty_roi_raises |-> FALSE]

\* Two red strokes of area 150 whose boxes have IoU 0.6, and a square of
\* area 100.
RedContours ==
    { [area2 |-> 300, rect |-> Rect(10, 10, 20, 20)],
      [area2 |-> 300, rect |-> Rect(15, 10, 20, 20)],
      [area2 |-> 200, rect |-> Rect(50, 50, 10, 10)] }

EdgeContours ==
    { [approx_len |-> 4, approx_rect |-> Rect(20, 5, 12, 12), rect |-> Rect(20, 5, 12, 12)],
      [approx_len |-> 4, approx_rect |-> Rect(60, 5, 10, 10), rect |-> Rect(60, 5, 10, 10)],
      [approx_len |-> 8, approx_rect |-> Rect(23, 6, 11, 12), rect |-> Rect(22, 6, 12, 12)] }

Segment(x1, y1, x2, y2) == [x1 |-> x1, y1 |-> y1, x2 |-> x2, y2 |-> y2]

MinimizeLines == { Segment(10, 5, 30, 5), Segment(10, 50, 30, 50) }

MenuLines == { Segment(10, 10, 30, 10), Segment(30, 18, 10, 18), Segment(10, 26, 30, 27) }

\* Circles are at least minDist apart (20 for radio, 30 for search).
RadioCircles == { [x |-> 50, y |-> 50, r |-> 10], [x |-> 4, y |-> 50, r |-> 10] }

SearchCircles ==
    { [x |-> 50, y |-> 50, r |-> 10, handle_lines |-> 1],
      [x |-> 90, y |-> 50, r |-> 10, handle_lines |-> 0],
      [x |-> 50, y |-> 4, r |-> 10, handle_lines |-> 1] }

FeatureSets ==
    { [NoFeatures EXCEPT !.red_contours = f] : f \in Seqs(RedContours, MaxFeatures) }
        \cup { [NoFeatures EXCEPT !.edge_contours = f] : f \in Seqs(EdgeContours, MaxFeatures) }
        \cup { [NoFeatures EXCEPT !.lines_minimize = f] : f \in Seqs(MinimizeLines, MaxFeatures) }
        \cup { [NoFeatures EXCEPT !.lines_menu = f] : f \in Seqs(MenuLines, MaxMenuLines) }
        \cup { [NoFeatures EXCEPT !.circles_radio = f] : f \in Seqs(RadioCircles, MaxFeatures) }
        \cup { [NoFeatures EXCEPT !.circles_search = f, !.empty_roi_raises = e] :
                 f \in Seqs(SearchCircles, MaxFeatures), e \in BOOLEAN }

\* Correlation values: -0.9, -0.5, 0.8, 0.95.
Peaks == [scale : 1..5, x : {0, 1}, y : {0}, v : {80, 95}]

\* No peak, one peak, two neighbouring peaks of one scale, or the same
\* coordinate at the scales 0.8 and 1.0.
PeakSets ==
    {{}} \cup { {p} : p \in Peaks }
         \cup UNION { { {p, q} : q \in { a \in Peaks : a.x = 1 /\ a.scale = p.scale } } :
                        p \in { a \in Peaks : a.x = 0 } }
         \cup UNION { { {p, q} : q \in { a \in Peaks : a.scale = 3 /\ a.x = p.x } } :
                        p \in { a \in Peaks : a.scale = 1 } }

SmallSurfaces == [bg : {-90, -50, 80}, peaks : PeakSets]

LargeSurfaces ==
    { [bg |-> -90, peaks |-> {}],
      [bg |-> -90, peaks |-> {[scale |-> 3, x |-> 10, y |-> 10, v |-> 95]}] }

Frame(shape, corr, features) == [shape |-> shape, corr |-> corr] @@ features

\* Screens of 4 x 4 and 3 x 3 pixels with nothing for the detectors to
\* find, and one of 200 x 100 with contours, segments or circles.
Frames ==
    { Frame(<<4, 4>>, corr, NoFeatures) : corr \in SmallSurfaces }
        \cup { Frame(<<3, 3>>, corr, NoFeatures) :
                 corr \in { c \in SmallSurfaces : Cardinality(c.peaks) <= 1 } }
        \cup { Frame(<<100, 200>>, corr, f) : corr \in LargeSurfaces, f \in FeatureSets }

\* The frames of the calls in which a step raises.
FaultFrames ==
    { Frame(<<4, 4>>, [bg |-> 80, peaks |-> {}], NoFeatures),
      Frame(<<100, 200>>, [bg |-> -90, peaks |-> {}],
            [NoFeatures EXCEPT !.red_contours =
                <<[area2 |-> 300, rect |-> Rect(10, 10, 20, 20)]>>]) }

AllNames == RegisterNames \cup DetectNames

---------------------------------------------------------------------------
(* The server: one call at a time, each handler run to its response.       *)

\* Two characters equal up to case.
CaseEqChar(a, b) ==
    \/ a = b
    \/ \E i \in DOMAIN UpperLetters :
           {a, b} = {UpperLetters[i], LowerLetters[i]}

\* Two names equal up to case.
CaseEq(m, n) ==
    /\ Len(m) = Len(n)
    /\ \A i \in 1..Len(m) : CaseEqChar(m[i], n[i])

Init ==
    /\ ICON_TEMPLATES = << >>
    /\ recent = [n \in AllNames |-> NoImage]
    /\ call = NoCall
    /\ result = NoResult

display_register_icon(body) ==
    /\ LET response == RegisterResponse(body)
       IN  /\ ICON_TEMPLATES' = RegisterStore(body, ICON_TEMPLATES)
           /\ call' = [op |-> "register", body |-> body, before |-> ICON_TEMPLATES]
           /\ result' = [kind |-> "response", response |-> response]
           /\ recent' =
                  IF response.success
                  THEN [n \in AllNames |->
                           IF CaseEq(n, body.data.name)
                           THEN DecodeTemplate(body.data.template).image
                           ELSE recent[n]]
                  ELSE recent

display_find_icons(body, frame, fault) ==
    /\ call' = [op |-> "detect", body |-> body, frame |-> frame, fault |-> fault,
                before |-> ICON_TEMPLATES]
    /\ result' = [kind |-> "response"] @@ FindIcons(body, frame, fault, ICON_TEMPLATES)
    /\ UNCHANGED <<ICON_TEMPLATES, recent>>

\* The response is sent and the server waits for the next request.
Respond ==
    /\ call # NoCall
    /\ call' = NoCall
    /\ result' = NoResult
    /\ UNCHANGED <<ICON_TEMPLATES, recent>>

\* A request is taken up when the handler of the one before has returned.
Next ==
    \/ /\ call = NoCall
       /\ \E body \in RegisterBodies : display_register_icon(body)
    \/ /\ call = NoCall
       /\ \E body \in DetectBodies, frame \in Frames :
              display_find_icons(body, frame, "none")
    \/ /\ call = NoCall
       /\ \E body \in DetectBodies, frame \in FaultFrames, fault \in Faults \ {"none"} :
              display_find_icons(body, frame, fault)
    \/ Respond

Spec == Init /\ [][Next]_vars

---------------------------------------------------------------------------
(* The suppressor on its own: Init draws a detection list and a threshold, *)
(* suppress applies remove_overlapping_detections to them.                 *)

SuppressBoxes ==
    { [x |-> x, y |-> y, width |-> w, height |-> 2] :
        x \in {0, 1}, y \in {0, 1}, w \in {2, 3} }

SuppressDetections ==
    { Detection(<<"s", "a", "v", "e">>, b.x, b.y, b.width, b.height, c) :
        b \in SuppressBoxes, c \in {80, 90} }

SuppressThresholds ==
    { [n |-> 0, d |-> 1], [n |-> 1, d |-> 4], DefaultOverlapThresh, [n |-> 3, d |-> 4],
      [n |-> 1, d |-> 1] }

SuppressLists ==
    UNION { [1..k -> SuppressDetections] : k \in 0..MaxDets }

InitSuppress ==
    /\ ICON_TEMPLATES = << >>
    /\ recent = [n \in AllNames |-> NoImage]
    /\ \E detections \in SuppressLists, overlap_thresh \in SuppressThresholds :
           call = [op |-> "suppress", detections |-> detections,
                   overlap_thresh |-> overlap_thresh]
    /\ result = NoResult

suppress ==
    /\ call.op = "suppress"
    /\ result = NoResult
    /\ result' = [kind |-> "suppressed",
                  kept |-> remove_overlapping_detections(call.detections,
                                                         call.overlap_thresh)]
    /\ UNCHANGED <<ICON_TEMPLATES, recent, call>>

NextSuppress == suppress

SpecSuppress == InitSuppress /\ [][NextSuppress]_vars

---------------------------------------------------------------------------
(* The server with several requests in flight.  The handlers are           *)
(* coroutines of one event loop: a handler runs until it awaits, and the   *)
(* only await of both is `data = await request.json()`, their first        *)
(* statement (lines 162 and 527).  A task is accepted (it runs up to that  *)
(* await), resumed (it runs from there to its return) and answered.        *)
(* call and result hold one entry per task.  A detect task also records    *)
(* the registry as it was when the task began (began), the images that     *)
(* register calls stored under its name while it was suspended (new) and   *)
(* the registry it was resumed on (before).                                *)

\* Requests in flight at a time.
MaxTasks == 2

Tasks == 1..MaxTasks

InterleavedRegisterBodies ==
    { [json_ok |-> TRUE, data |-> [name |-> <<"S", "a", "v", "e">>, template |-> "iVBORw0KGgoA"]],
      [json_ok |-> TRUE, data |-> [name |-> <<"S", "A", "V", "E">>, template |-> "iVBORw0KGgoB"]],
      [json_ok |-> TRUE, data |-> [name |-> <<"S", "a", "v", "e">>, template |-> "bm90IGFuIGltYWdl"]] }

InterleavedDetectBodies ==
    { [json_ok |-> TRUE, data |-> [icon |-> <<"s", "A", "V", "E">>]] }

InterleavedFrames ==
    { Frame(<<5, 5>>, [bg |-> -90, peaks |-> {[scale |-> 3, x |-> 0, y |-> 0, v |-> 95]}],
            NoFeatures) }

InitInterleaved ==
    /\ ICON_TEMPLATES = << >>
    /\ recent = [n \in AllNames |-> NoImage]
    /\ call = [t \in Tasks |-> NoCall]
    /\ result = [t \in Tasks |-> NoResult]

\* The handler of task t starts and suspends at `await request.json()`.
AcceptRegister(t, body) ==
    /\ call[t] = NoCall
    /\ call' = [call EXCEPT ![t] = [op |-> "register", pc |-> "await_json", body |-> body]]
    /\ UNCHANGED <<ICON_TEMPLATES, recent, result>>

AcceptDetect(t, body, frame) ==
    /\ call[t] = NoCall
    /\ call' = [call EXCEPT ![t] = [op |-> "detect", pc |-> "await_json", body |-> body,
                                     frame |-> frame, began |-> ICON_TEMPLATES, new |-> {}]]
    /\ UNCHANGED <<ICON_TEMPLATES, recent, result>>

\* Lines 528-555 in one piece: no await lies between them.
ResumeRegister(t) ==
    /\ call[t].op = "register"
    /\ call[t].pc = "await_json"
    /\ LET body == call[t].body
           response == RegisterResponse(body)
           waits_for_name(u) ==
               /\ call[u].op = "detect"
               /\ call[u].pc = "await_json"
               /\ response.success
               /\ Lower(call[u].body.data.icon) = Lower(body.data.name)
       IN  /\ ICON_TEMPLATES' = RegisterStore(body, ICON_TEMPLATES)
           /\ result' = [result EXCEPT ![t] = [kind |-> "response", response |-> response]]
           /\ call' = [u \in Tasks |->
                          IF u = t THEN [call[t] EXCEPT !.pc = "returned"]
                          ELSE IF waits_for_name(u)
                          THEN [call[u] EXCEPT
                                  !.new = @ \cup {DecodeTemplate(body.data.template).image}]
                          ELSE call[u]]
    /\ UNCHANGED recent

\* Lines 163-185 in one piece: the test of line 174 and the read of line
\* 175 are on the registry as it is when the task is resumed.
ResumeDetect(t) ==
    /\ call[t].op = "detect"
    /\ call[t].pc = "await_json"
    /\ result' = [result EXCEPT ![t] =
                     [kind |-> "response"]
                         @@ FindIcons(call[t].body, call[t].frame, "none", ICON_TEMPLATES)]
    /\ call' = [call EXCEPT ![t] =
                   [pc |-> "returned", before |-> ICON_TEMPLATES] @@ call[t]]
    /\ UNCHANGED <<ICON_TEMPLATES, recent>>

RespondTask(t) ==
    /\ call[t] # NoCall
    /\ call[t].pc = "returned"
    /\ call' = [call EXCEPT ![t] = NoCall]
    /\ result' = [result EXCEPT ![t] = NoResult]
    /\ UNCHANGED <<ICON_TEMPLATES, recent>>

NextInterleaved ==
    \/ \E t \in Tasks, body \in InterleavedRegisterBodies : AcceptRegister(t, body)
    \/ \E t \in Tasks, body \in InterleavedDetectBodies, frame \in InterleavedFrames :
           AcceptDetect(t, body, frame)
    \/ \E t \in Tasks : ResumeRegister(t)
    \/ \E t \in Tasks : ResumeDetect(t)
    \/ \E t \in Tasks : RespondTask(t)

SpecInterleaved == InitInterleaved /\ [][NextInterleaved]_vars

---------------------------------------------------------------------------
(* The matcher on its own: Init draws a frame, a template and a threshold, *)
(* match applies find_template_matches to them.  by_scale holds what each  *)
(* pass of the scale loop appended, raw the list before line 224.          *)

MatcherFrames ==
    { Frame(shape, corr, NoFeatures) :
        shape \in { <<4, 4>>, <<3, 3>>, <<2, 5>> }, corr \in SmallSurfaces }

MatcherThresholds == {-60, 80, 95}

InitMatcher ==
    /\ ICON_TEMPLATES = << >>
    /\ recent = [n \in AllNames |-> NoImage]
    /\ \E frame \in MatcherFrames, template \in {ImageA, ImageB},
          threshold \in MatcherThresholds :
           call = [op |-> "match", frame |-> frame, template |-> template,
                   name |-> <<"s", "a", "v", "e">>, threshold |-> threshold]
    /\ result = NoResult

match ==
    /\ call.op = "match"
    /\ result = NoResult
    /\ result' =
           [kind |-> "matched",
            by_scale |-> [k \in 1..Len(Scales) |->
                            ScaleMatches(call.frame, call.template, call.name,
                                         call.threshold, k)],
            raw |-> RawTemplateMatches(call.frame, call.template, call.name,
                                       call.threshold),
            icons |-> find_template_matches(call.frame, call.template, call.name,
                                            call.threshold)]
    /\ UNCHANGED <<ICON_TEMPLATES, recent, call>>

NextMatcher == match

SpecMatcher == InitMatcher /\ [][NextMatcher]_vars

---------------------------------------------------------------------------
(* The detectors on their own: Init draws an icon name and a frame,        *)
(* detect_common applies detect_common_ui_elements to them.  The frames    *)
(* are drawn case by case (call.case tells how the frame was made):        *)
(*   capped    n candidates of one detector, side by side, those at the    *)
(*             positions of rejects made so that its filter refuses them   *)
(*   checkbox  one contour with a bounding box of w x h                    *)
(*   menu      three horizontal segments, the second dx1 right of and s1   *)
(*             below the first, the third dx2 right of and s2 below the    *)
(*             second, listed in that order or the third first             *)
(*   radio     circles near the left or the top edge of the frame          *)

\* Longest list of candidates of one detector.
MaxCandidates == 12

Slot(i) == 40 * i

CloseCandidate(i, passes) ==
    [area2 |-> IF passes THEN 300 ELSE 100, rect |-> Rect(Slot(i), 20, 12, 12)]

MinimizeCandidate(i, passes) ==
    Segment(Slot(i), 20, Slot(i) + 15, IF passes THEN 20 ELSE 25)

MaximizeCandidate(i, passes) ==
    [approx_len |-> IF passes THEN 4 ELSE 6,
     approx_rect |-> Rect(Slot(i), 20, 12, 12), rect |-> Rect(Slot(i), 20, 12, 12)]

CheckboxCandidate(i, passes) ==
    [approx_len |-> 4,
     approx_rect |-> Rect(Slot(i), 20, 12, IF passes THEN 12 ELSE 28),
     rect |-> Rect(Slot(i), 20, 12, IF passes THEN 12 ELSE 28)]

RadioCandidate(i, passes) == [x |-> Slot(i), y |-> 20, r |-> 10]

SearchCandidate(i, passes) ==
    [x |-> Slot(i), y |-> 40, r |-> 10, handle_lines |-> IF passes THEN 1 ELSE 0]

MenuCandidate(i, passes) ==
    Segment(20, 20 + 8 * i, 40, IF passes THEN 20 + 8 * i ELSE 24 + 8 * i)

DetectorNames ==
    { CloseText, MinimizeText, MaximizeText, CheckboxText, RadioText, SearchText, MenuText }

RejectSets == { {}, {1}, {2, 4} }

CheckboxSides == {9, 10, 11, 12, 15, 18, 20, 24, 29, 30, 31}

MenuSpacings == {2, 3, 4, 9, 14, 15, 16}

MenuSpacingSteps == {-3, -2, 0, 2, 3}

MenuOffsets == {0, 4, 5}

EdgeCircles ==
    { <<[x |-> 50, y |-> 50, r |-> 10]>>,
      <<[x |-> 4, y |-> 50, r |-> 10]>>,
      <<[x |-> 50, y |-> 4, r |-> 10]>>,
      <<[x |-> 50, y |-> 50, r |-> 10], [x |-> 6, y |-> 6, r |-> 10]>> }

DetectorCases ==
    { [kind |-> "capped", detector |-> d, n |-> n, rejects |-> r] :
        d \in DetectorNames \ {RadioText}, n \in 0..MaxCandidates, r \in RejectSets }
        \cup { [kind |-> "capped", detector |-> RadioText, n |-> n, rejects |-> {}] :
                 n \in 0..MaxCandidates }
        \cup { [kind |-> "checkbox", w |-> w, h |-> h] : w \in CheckboxSides, h \in CheckboxSides }
        \cup { c \in { [kind |-> "menu", dx1 |-> dx1, dx2 |-> dx2, s1 |-> s1, s2 |-> s1 + ds,
                         third_first |-> o] :
                           dx1 \in MenuOffsets, dx2 \in MenuOffsets, s1 \in MenuSpacings,
                           ds \in MenuSpacingSteps, o \in BOOLEAN } :
                   c.s2 >= 1 }
        \cup { [kind |-> "radio", circles |-> cs] : cs \in EdgeCircles }

CaseName(c) ==
    CASE c.kind = "capped" -> c.detector
      [] c.kind = "checkbox" -> CheckboxText
      [] c.kind = "menu" -> MenuText
      [] c.kind = "radio" -> RadioText

CaseFeatures(c) ==
    LET list(F(_, _)) == [i \in 1..c.n |-> F(i, i \notin c.rejects)]
        l1 == Segment(10, 20, 30, 20)
        l2 == Segment(10 + c.dx1, 20 + c.s1, 30 + c.dx1, 20 + c.s1)
        l3 == Segment(10 + c.dx1 + c.dx2, 20 + c.s1 + c.s2,
                      30 + c.dx1 + c.dx2, 20 + c.s1 + c.s2)
    IN  CASE c.kind = "capped" /\ c.detector = CloseText ->
                 [NoFeatures EXCEPT !.red_contours = list(CloseCandidate)]
          [] c.kind = "capped" /\ c.detector = MinimizeText ->
                 [NoFeatures EXCEPT !.lines_minimize = list(MinimizeCandidate)]
          [] c.kind = "capped" /\ c.detector = MaximizeText ->
                 [NoFeatures EXCEPT !.edge_contours = list(MaximizeCandidate)]
          [] c.kind = "capped" /\ c.detector = CheckboxText ->
                 [NoFeatures EXCEPT !.edge_contours = list(CheckboxCandidate)]
          [] c.kind = "capped" /\ c.detector = RadioText ->
                 [NoFeatures EXCEPT !.circles_radio = list(RadioCandidate)]
          [] c.kind = "capped" /\ c.detector = SearchText ->
                 [NoFeatures EXCEPT !.circles_search = list(SearchCandidate)]
          [] c.kind = "capped" /\ c.detector = MenuText ->
                 [NoFeatures EXCEPT !.lines_menu = list(MenuCandidate)]
          [] c.kind = "checkbox" ->
                 [NoFeatures EXCEPT !.edge_contours =
                     <<[approx_len |-> 4, approx_rect |-> Rect(20, 20, c.w, c.h),
                        rect |-> Rect(20, 20, c.w, c.h)]>>]
          [] c.kind = "menu" ->
                 [NoFeatures EXCEPT !.lines_menu =
                     IF c.third_first THEN <<l3, l1, l2>> ELSE <<l1, l2, l3>>]
          [] c.kind = "radio" ->
                 [NoFeatures EXCEPT !.circles_radio = c.circles]

InitDetectors ==
    /\ ICON_TEMPLATES = << >>
    /\ recent = [n \in AllNames |-> NoImage]
    /\ \E c \in DetectorCases :
           call = [op |-> "detectors", case |-> c, icon_name |-> CaseName(c),
                   frame |-> Frame(<<600, 800>>, [bg |-> -90, peaks |-> {}], CaseFeatures(c))]
    /\ result = NoResult

detect_common ==
    /\ call.op = "detectors"
    /\ result = NoResult
    /\ result' = [kind |-> "detected"]
                     @@ detect_common_ui_elements(call.frame, call.icon_name,
                                                  DefaultThreshold, "none")
    /\ UNCHANGED <<ICON_TEMPLATES, recent, call>>

NextDetectors == detect_common

SpecDetectors == InitDetectors /\ [][NextDetectors]_vars

---------------------------------------------------------------------------
(* Claims about the suppressor                                             *)

\* The unit cells a box covers: its area is their number.
Cells(b) ==
    { <<i, j>> : i \in b.x..(b.x + b.width - 1), j \in b.y..(b.y + b.height - 1) }

\* IoU(b1, b2) <= t, the IoU being the area of the intersection over the
\* area of the union (0 when the boxes do not intersect).
IoUAtMost(b1, b2, t) ==
    Cardinality(Cells(b1) \cap Cells(b2)) * t.d
        <= t.n * Cardinality(Cells(b1) \cup Cells(b2))

\* C4: every pair of distinct detections in the output of
\* remove_overlapping_detections has IoU <= the threshold.
C4_NoOverlap ==
    result.kind = "suppressed" =>
        \A i, j \in 1..Len(result.kept) :
            i # j => IoUAtMost(result.kept[i].bounds, result.kept[j].bounds,
                               call.overlap_thresh)

\* C4 witness: a detection was dropped for its overlap and two were kept.
C4_Witness ==
    /\ result.kind = "suppressed"
    /\ Len(result.kept) = 2
    /\ Len(call.detections) = 3
    /\ call.overlap_thresh = DefaultOverlapThresh
    /\ \E i, j \in 1..3 :
           /\ i # j
           /\ ~IoUAtMost(call.detections[i].bounds, call.detections[j].bounds,
                         call.overlap_thresh)
           /\ call.detections[i].bounds # call.detections[j].bounds

\* C5: the output is non-increasing in confidence, and it is the input
\* restricted to some of its positions with detections of equal confidence
\* in the order of their input positions.
C5_SortedStable ==
    result.kind = "suppressed" =>
        LET input == call.detections
            out == result.kept
        IN  /\ \A i \in 1..(Len(out) - 1) :
                   out[i].confidence >= out[i + 1].confidence
            /\ \E idx \in [1..Len(out) -> 1..Len(input)] :
                   /\ \A i \in 1..Len(out) : out[i] = input[idx[i]]
                   /\ \A i, j \in 1..Len(out) :
                          i < j =>
                              /\ idx[i] # idx[j]
                              /\ out[i].confidence = out[j].confidence
                                     => idx[i] < idx[j]

\* C5 witness: the input is not in confidence order, and two different
\* detections of equal confidence are both kept.
C5_Witness ==
    /\ result.kind = "suppressed"
    /\ Len(result.kept) = 3
    /\ result.kept[2].confidence = result.kept[3].confidence
    /\ result.kept[2] # result.kept[3]
    /\ call.detections[1].confidence < call.detections[3].confidence

---------------------------------------------------------------------------
(* Claims about the handlers                                               *)

\* The call answered is a detect call whose body was read and whose
\* screenshot was taken: the handler got as far as the registry.
DetectLookedUp ==
    /\ call.op = "detect"
    /\ call.body.json_ok
    /\ call.fault # "view"

RequestedIcon == Get(call.body.data, "icon", <<>>)
RequestedThreshold == Get(call.body.data, "threshold", DefaultThreshold)

\* The keys under which the registry held a template for the requested
\* name when the call began.
RequestedKeys == { k \in DOMAIN call.before : CaseEq(k, RequestedIcon) }

\* What the matcher and the suppressor give for the template under key k.
MatchedFor(k) ==
    find_template_matches(call.frame, call.before[k], k, RequestedThreshold)

\* What the detectors give for the requested name.
CommonForRequest ==
    detect_common_ui_elements(call.frame, Lower(RequestedIcon), RequestedThreshold, "none").value

\* C1 as stated: with a template registered under the requested name, a
\* successful detect returns the matcher's result, also when it is empty.
C1_TemplateResultEvenIfEmpty ==
    (DetectLookedUp /\ result.response.success) =>
        \A k \in RequestedKeys : result.response.icons = MatchedFor(k)

\* C1 amended: with a template registered under the requested name, a
\* successful detect returns the matcher's result when it is not empty, and
\* what the detectors give for the name when it is.
C1_TemplateResultOrFallback ==
    (DetectLookedUp /\ result.response.success) =>
        \A k \in RequestedKeys :
            result.response.icons =
                IF MatchedFor(k) # <<>> THEN MatchedFor(k) ELSE CommonForRequest

\* C1 witness: a template is registered, its run finds nothing, and the
\* detections returned are the detectors'.
C1_Witness ==
    /\ DetectLookedUp
    /\ result.response.success
    /\ RequestedKeys # {}
    /\ \A k \in RequestedKeys : MatchedFor(k) = <<>>
    /\ result.response.icons # <<>>

\* C2: the detectors run only when no template is registered or its run
\* found nothing; a successful response holds the matcher's list when that
\* is not empty and else the detectors' list, never detections of both.
C2_CommonOnlyWithoutMatches ==
    call.op = "detect" =>
        /\ result.ran_common =>
               /\ DetectLookedUp
               /\ \A k \in RequestedKeys :
                      result.ran_matcher /\ call.fault # "matcher" /\ MatchedFor(k) = <<>>
        /\ (DetectLookedUp /\ call.fault = "none") =>
               result.ran_common = (\A k \in RequestedKeys : MatchedFor(k) = <<>>)
        /\ (DetectLookedUp /\ result.response.success) =>
               /\ \A k \in RequestedKeys :
                      MatchedFor(k) # <<>> => result.response.icons = MatchedFor(k)
               /\ \/ result.response.icons = CommonForRequest
                  \/ \E k \in RequestedKeys : result.response.icons = MatchedFor(k)

\* C2 witness: the name is registered and an alias, the frame holds both a
\* match and red contours, and only the match is returned.
C2_Witness ==
    /\ DetectLookedUp
    /\ result.response.success
    /\ RequestedKeys # {}
    /\ ~result.ran_common
    /\ CommonForRequest # <<>>
    /\ result.response.icons # <<>>

\* C3 as stated: the detections a successful detect returns from the
\* detectors have pairwise IoU <= 0.5.
C3_CommonResultSuppressed ==
    (DetectLookedUp /\ result.response.success /\ result.ran_common) =>
        \A i, j \in 1..Len(result.response.icons) :
            i # j => IoUAtMost(result.response.icons[i].bounds,
                               result.response.icons[j].bounds, DefaultOverlapThresh)

\* C6: for every name, the registry holds no entry under a case-equal key
\* if none was registered, and else exactly one, the image of the latest
\* successful registration under a case-equal name; a detect reads that
\* image for any casing.  (recent changes only in a successful
\* registration, so the entry stays until the next one.)
C6_LastWriteWins ==
    /\ \A n \in AllNames :
           LET keys == { k \in DOMAIN ICON_TEMPLATES : CaseEq(k, n) }
           IN  IF recent[n] = NoImage
               THEN keys = {}
               ELSE /\ Cardinality(keys) = 1
                    /\ \A k \in keys : ICON_TEMPLATES[k] = recent[n]
    /\ DetectLookedUp =>
           IF recent[RequestedIcon] = NoImage
           THEN result.template = NoTemplate
           ELSE result.template = recent[RequestedIcon]

\* C6 witness: SAVE is registered with a second image over the entry of a
\* first one.
C6_Witness ==
    /\ call.op = "register"
    /\ result.response.success
    /\ call.body.data.name = <<"S", "A", "V", "E">>
    /\ \E k \in DOMAIN call.before :
           /\ CaseEq(k, call.body.data.name)
           /\ call.before[k] = ImageA
           /\ ICON_TEMPLATES[k] = ImageB
    /\ Cardinality(DOMAIN ICON_TEMPLATES) = Cardinality(DOMAIN call.before)

\* A register body with no name, an empty name, no template text, an empty
\* one, or one that does not decode to an image.
BadRegisterBody(body) ==
    \/ ~body.json_ok
    \/ Get(body.data, "name", <<>>) = <<>>
    \/ Get(body.data, "template", "") = ""
    \/ DecodeTemplate(body.data.template).raised
    \/ DecodeTemplate(body.data.template).image = NoImage

\* C7: a register call with such a body, and any register call answered
\* with success=false, carries an error message and leaves the registry as
\* it was before the call.
C7_FailedRegisterChangesNothing ==
    (call.op = "register" /\ (BadRegisterBody(call.body) \/ ~result.response.success)) =>
        /\ ~result.response.success
        /\ "error" \in DOMAIN result.response
        /\ ICON_TEMPLATES = call.before

\* C7 witness: bytes that are no image are sent under a name that is
\* registered.
C7_Witness ==
    /\ call.op = "register"
    /\ ~result.response.success
    /\ call.body.json_ok
    /\ Get(call.body.data, "template", "") = "bm90IGFuIGltYWdl"
    /\ \E k \in DOMAIN call.before : CaseEq(k, Get(call.body.data, "name", <<>>))

\* A step of the detect call raised: the view, the matcher when it ran, or
\* a detector when one ran.
DetectRaised ==
    \/ call.fault = "view"
    \/ call.fault = "matcher" /\ result.ran_matcher
    \/ /\ call.fault = "detector"
       /\ result.ran_common
       /\ \E a \in CloseAliases \cup MinimizeAliases \cup MaximizeAliases
                     \cup CheckboxAliases \cup RadioAliases \cup SearchAliases
                     \cup MenuAliases : CaseEq(a, RequestedIcon)

\* C8: a detect call in which a step raised answers success=false with an
\* error and icons=[], as does every failed detect call; and no detect call
\* changes the registry, which is all the state a later call reads.
C8_DetectFailureContained ==
    call.op = "detect" =>
        /\ DetectRaised => ~result.response.success
        /\ ~result.response.success =>
               /\ "error" \in DOMAIN result.response
               /\ "icons" \in DOMAIN result.response
               /\ result.response.icons = <<>>
        /\ ICON_TEMPLATES = call.before

\* C8 witness: a detector raises while a template is registered.
C8_Witness ==
    /\ call.op = "detect"
    /\ call.fault = "detector"
    /\ DetectRaised
    /\ ~result.response.success
    /\ ICON_TEMPLATES # << >>

\* C9: a detect for a name with no registered template that is no alias
\* of a detector answers success=true with no icons.
C9_UnknownNameIsNoError ==
    (/\ DetectLookedUp
     /\ RequestedKeys = {}
     /\ ~\E a \in CloseAliases \cup MinimizeAliases \cup MaximizeAliases
                    \cup CheckboxAliases \cup RadioAliases \cup SearchAliases
                    \cup MenuAliases : CaseEq(a, RequestedIcon)) =>
        /\ result.response.success
        /\ result.response.icons = <<>>

\* C9 witness: zz is asked for on a frame with red contours.
C9_Witness ==
    /\ DetectLookedUp
    /\ RequestedIcon = <<"z", "z">>
    /\ call.frame.red_contours # <<>>
    /\ ICON_TEMPLATES # << >>
    /\ result.response.success
    /\ result.response.icons = <<>>

\* C10 as stated: every detection a detect returns has a confidence
\* between 0.0 and 1.0.
C10_ConfidenceInUnitRange ==
    (call.op = "detect" /\ result.response.success) =>
        \A i \in 1..Len(result.response.icons) :
            /\ 0 <= result.response.icons[i].confidence
            /\ result.response.icons[i].confidence <= 100

---------------------------------------------------------------------------
(* Claims about requests in flight together                                *)

\* C11: a detect call interleaved with register calls for its name uses
\* the registry of the moment it is resumed for both the membership test
\* and the read; the template it uses is a whole one, the one registered
\* when the call began or one stored while it was suspended; and a name
\* registered when the call began is never found missing.
C11_DetectSeesWholeTemplate ==
    \A t \in Tasks :
        (call[t].op = "detect" /\ call[t].pc = "returned") =>
            LET k == Lower(call[t].body.data.icon)
                used == result[t].template
                old == IF k \in DOMAIN call[t].began THEN {call[t].began[k]} ELSE {}
            IN  /\ used = IF k \in DOMAIN call[t].before
                          THEN call[t].before[k] ELSE NoTemplate
                /\ result[t].ran_matcher = (k \in DOMAIN call[t].before)
                /\ k \in DOMAIN call[t].began => used # NoTemplate
                /\ used # NoTemplate => used \in old \cup call[t].new
                /\ used \in {NoTemplate, ImageA, ImageB}

\* A detect call that began with one template registered and was resumed
\* after a register call had replaced it: it used the new one.
C11_Witness ==
    \E t \in Tasks :
        /\ call[t].op = "detect"
        /\ call[t].pc = "returned"
        /\ LET k == Lower(call[t].body.data.icon)
           IN  /\ k \in DOMAIN call[t].began
               /\ call[t].began[k] = ImageA
               /\ call[t].new = {ImageB}
               /\ result[t].template = ImageB
               /\ result[t].response.success

---------------------------------------------------------------------------
(* Claims about the matcher                                                *)

\* d * scale / 10 to the nearest integer, the even one of two equally near.
Nearest(d, scale) ==
    CHOOSE n \in 0..(2 * d) :
        \/ 2 * Abs(10 * n - d * scale) < 10
        \/ (2 * Abs(10 * n - d * scale) = 10 /\ n % 2 = 0)

\* The scales, by number, whose resized template fits in the call's frame.
FittingScales ==
    { k \in 1..Len(Scales) :
        /\ Nearest(call.template.shape[1], Scales[k]) <= call.frame.shape[1]
        /\ Nearest(call.template.shape[2], Scales[k]) <= call.frame.shape[2] }

\* C12: no detection of the matcher is wider or higher than the frame, and
\* a scale whose resized template does not fit in the frame gives none.
C12_ScaleBound ==
    result.kind = "matched" =>
        /\ \A i \in 1..Len(result.raw) :
               /\ result.raw[i].bounds.width <= call.frame.shape[2]
               /\ result.raw[i].bounds.height <= call.frame.shape[1]
        /\ \A i \in 1..Len(result.icons) :
               /\ result.icons[i].bounds.width <= call.frame.shape[2]
               /\ result.icons[i].bounds.height <= call.frame.shape[1]
        /\ \A k \in 1..Len(Scales) \ FittingScales : result.by_scale[k] = <<>>

\* A scale that does not fit is passed over although the surface has a
\* value above the threshold for it, and a scale that fits gives detections.
C12_Witness ==
    /\ result.kind = "matched"
    /\ result.raw # <<>>
    /\ \E p \in call.frame.corr.peaks :
           /\ p.scale \notin FittingScales
           /\ p.v >= call.threshold

\* C14: before suppression the list is what the fitting scales give, all
\* of them and in their order; a fitting scale gives exactly one detection
\* for every coordinate of its surface whose value is >= the threshold and
\* none for another, with the template's name, the coordinate, the resized
\* width and height, and the value there as confidence.
C14_EveryScaleEveryCoordinate ==
    result.kind = "matched" =>
        /\ result.raw = Concat(result.by_scale)
        /\ \A k \in FittingScales :
               LET w == Nearest(call.template.shape[2], Scales[k])
                   h == Nearest(call.template.shape[1], Scales[k])
                   found == result.by_scale[k]
               IN  /\ \A x \in 0..(call.frame.shape[2] - w), y \in 0..(call.frame.shape[1] - h) :
                          Cardinality({ i \in 1..Len(found) :
                                          /\ found[i].bounds.x = x
                                          /\ found[i].bounds.y = y }) =
                              IF CorrAt(call.frame, k, x, y) >= call.threshold THEN 1 ELSE 0
                   /\ \A i \in 1..Len(found) :
                          /\ found[i].type = "icon"
                          /\ found[i].text = call.name
                          /\ found[i].bounds.x \in 0..(call.frame.shape[2] - w)
                          /\ found[i].bounds.y \in 0..(call.frame.shape[1] - h)
                          /\ found[i].bounds.width = w
                          /\ found[i].bounds.height = h
                          /\ found[i].confidence =
                                 CorrAt(call.frame, k, found[i].bounds.x, found[i].bounds.y)

\* Two scales give detections in one call, one of them for a value equal
\* to the threshold, and a coordinate below the threshold gives none.
C14_Witness ==
    /\ result.kind = "matched"
    /\ Cardinality({ k \in 1..Len(Scales) : result.by_scale[k] # <<>> }) >= 2
    /\ \E i \in 1..Len(result.raw) : result.raw[i].confidence = call.threshold
    /\ \E k \in FittingScales :
           /\ result.by_scale[k] # <<>>
           /\ CorrAt(call.frame, k, 0, 0) < call.threshold

---------------------------------------------------------------------------
(* The suppressor, decision by decision                                    *)

\* Position i of the input comes before position j in confidence order.
ComesBefore(i, j) ==
    \/ call.detections[i].confidence > call.detections[j].confidence
    \/ (call.detections[i].confidence = call.detections[j].confidence /\ i < j)

\* The detections at the positions K of the input, in confidence order.
RECURSIVE InConfidenceOrder(_)
InConfidenceOrder(K) ==
    IF K = {} THEN <<>>
    ELSE LET first == CHOOSE i \in K : \A j \in K \ {i} : ComesBefore(i, j)
         IN  <<call.detections[first]>> \o InConfidenceOrder(K \ {first})

\* C15: the output holds, unaltered and in confidence order, the detections
\* at a set K of input positions such that a position is outside K exactly
\* when a position of K that comes before it has IoU > the threshold with
\* it; so the first in confidence order is in K, and an empty input gives
\* an empty output.
C15_DroppedOnlyForKeptOverlap ==
    result.kind = "suppressed" =>
        /\ \E K \in SUBSET (1..Len(call.detections)) :
               /\ result.kept = InConfidenceOrder(K)
               /\ \A i \in 1..Len(call.detections) :
                      i \notin K <=>
                          \E j \in K :
                              /\ ComesBefore(j, i)
                              /\ ~IoUAtMost(call.detections[j].bounds,
                                            call.detections[i].bounds,
                                            call.overlap_thresh)
        /\ call.detections # <<>> =>
               /\ result.kept # <<>>
               /\ \E i \in 1..Len(call.detections) :
                      /\ \A j \in 1..Len(call.detections) : j # i => ComesBefore(i, j)
                      /\ result.kept[1] = call.detections[i]
        /\ call.detections = <<>> => result.kept = <<>>

\* Of three detections one is dropped for a kept one before it, and one is
\* kept whose IoU with a kept one before it is equal to the threshold.
C15_Witness ==
    /\ result.kind = "suppressed"
    /\ Len(call.detections) = 3
    /\ Len(result.kept) = 2
    /\ call.overlap_thresh.n > 0
    /\ LET b1 == result.kept[1].bounds
           b2 == result.kept[2].bounds
       IN  Cardinality(Cells(b1) \cap Cells(b2)) * call.overlap_thresh.d
               = call.overlap_thresh.n * Cardinality(Cells(b1) \cup Cells(b2))

---------------------------------------------------------------------------
(* Claims about the detectors                                              *)

\* The cap the documentation states for a detector.
StatedCap(detector) ==
    IF detector \in {CheckboxText, RadioText} THEN 10 ELSE 5

\* The positions of the candidates made to pass the filter of the call's
\* detector; for the menu detector, the first positions of three
\* neighbouring segments that are all horizontal.
PassingPositions ==
    LET c == call.case
    IN  IF c.detector = MenuText
        THEN { a \in 1..(c.n - 2) : {a, a + 1, a + 2} \cap c.rejects = {} }
        ELSE (1..c.n) \ c.rejects

\* The j-th position of P in ascending order.
Nth(P, j) == CHOOSE i \in P : Cardinality({ m \in P : m < i }) = j - 1

\* Where the detection made from the candidate at position i lies: its y
\* for the menu detector, its x for the others.
PlaceOf(detector, i) ==
    CASE detector = MenuText -> 15 + 8 * i
      [] detector = MinimizeText -> 40 * i - 5
      [] detector = RadioText -> 40 * i - 10
      [] detector = SearchText -> 40 * i - 15
      [] OTHER -> 40 * i

\* C13: a detector returns the detections of the first N candidates that
\* pass its filter, in the order in which they were found, N being its
\* cap (checkbox and radio 10, the others 5); never more than N.
C13_FirstCandidatesUpToCap ==
    (result.kind = "detected" /\ call.case.kind = "capped") =>
        LET c == call.case
            P == PassingPositions
            found == result.value
        IN  /\ ~result.raised
            /\ Len(found) <= StatedCap(c.detector)
            /\ Len(found) = Min(StatedCap(c.detector), Cardinality(P))
            /\ \A j \in 1..Len(found) :
                   /\ found[j].text = c.detector
                   /\ PlaceOf(c.detector, Nth(P, j)) =
                          IF c.detector = MenuText
                          THEN found[j].bounds.y ELSE found[j].bounds.x

\* Twelve contours of which the first fails the checkbox filter: the
\* detections of the second to the eleventh are returned.
C13_Witness ==
    /\ result.kind = "detected"
    /\ call.case.kind = "capped"
    /\ call.case.detector = CheckboxText
    /\ call.case.n = 12
    /\ call.case.rejects = {1}
    /\ Len(result.value) = 10
    /\ result.value[1].bounds.x = 80
    /\ result.value[10].bounds.x = 440

\* C16 as stated: the three segments give a detection exactly when their
\* x-origins are within 5 of each other and both spacings are in [3,15]
\* and differ by less than 3.
C16_MenuTripleInclusive ==
    (result.kind = "detected" /\ call.case.kind = "menu") =>
        LET c == call.case
        IN  Len(result.value) = 1 <=>
                /\ c.dx1 <= 5
                /\ c.dx2 <= 5
                /\ c.dx1 + c.dx2 <= 5
                /\ c.s1 \in 3..15
                /\ c.s2 \in 3..15
                /\ Abs(c.s1 - c.s2) < 3

\* C16, amended: the three segments give a detection exactly when the
\* x-origins of the first and second, and of the second and third, differ
\* by less than 5, the first spacing is above 3 and below 15, and the two
\* spacings differ by less than 3; the detection has confidence 0.7 and
\* spans from 5 left of and above the first segment, 10 wider than it, to
\* 5 below the third.
C16_MenuTripleRule ==
    (result.kind = "detected" /\ call.case.kind = "menu") =>
        LET c == call.case
            accepted == /\ c.dx1 \in 0..4
                        /\ c.dx2 \in 0..4
                        /\ c.s1 \in 4..14
                        /\ c.s2 - c.s1 \in -2..2
        IN  /\ ~result.raised
            /\ accepted =>
                   result.value =
                       <<Detection(MenuText, 5, 15, 30, c.s1 + c.s2 + 10, 70)>>
            /\ ~accepted => result.value = <<>>

\* A detection for spacings of 14 and 16, the segments listed out of order.
C16_Witness ==
    /\ result.kind = "detected"
    /\ call.case.kind = "menu"
    /\ call.case.s1 = 14
    /\ call.case.s2 = 16
    /\ call.case.third_first
    /\ Len(result.value) = 1

\* C17 as stated: a box gives a checkbox detection exactly when its aspect
\* ratio is in [0.8,1.2] and its width and height are in [10,30].
C17_CheckboxInclusive ==
    (result.kind = "detected" /\ call.case.kind = "checkbox") =>
        LET c == call.case
        IN  Len(result.value) = 1 <=>
                /\ 10 * c.w >= 8 * c.h
                /\ 10 * c.w <= 12 * c.h
                /\ c.w \in 10..30
                /\ c.h \in 10..30

\* C17, amended: a box gives a checkbox detection exactly when its aspect
\* ratio is above 0.8 and below 1.2 and its width and height are above 10
\* and below 30; the detection has the box as bounds and confidence 0.5.
C17_CheckboxStrict ==
    (result.kind = "detected" /\ call.case.kind = "checkbox") =>
        LET c == call.case
            accepted == /\ 10 * c.w > 8 * c.h
                        /\ 10 * c.w < 12 * c.h
                        /\ c.w \in 11..29
                        /\ c.h \in 11..29
        IN  /\ ~result.raised
            /\ accepted =>
                   result.value = <<Detection(CheckboxText, 20, 20, c.w, c.h, 50)>>
            /\ ~accepted => result.value = <<>>

\* A box of 29 x 29 is accepted.
C17_Witness ==
    /\ result.kind = "detected"
    /\ call.case.kind = "checkbox"
    /\ call.case.w = 29
    /\ call.case.h = 29
    /\ Len(result.value) = 1

\* C18: the radio detector gives, for each circle, the bounds cx - r,
\* cy - r, 2r, 2r as signed integers, negative where the circle reaches
\* over the left or the top edge.
C18_RadioBoundsSigned ==
    (result.kind = "detected" /\ call.case.kind = "radio") =>
        /\ Len(result.value) = Len(call.case.circles)
        /\ \A i \in 1..Len(result.value) :
               LET c == call.case.circles[i]
               IN  result.value[i].bounds =
                       [x |-> c.x - c.r, y |-> c.y - c.r,
                        width |-> 2 * c.r, height |-> 2 * c.r]

=============================================================================
